---- MODULE Spec2Model ----
(***************************************************************************)
(* Model of the transcript consolidation and verification engine of        *)
(* controllers/data_processor.py, the schema validator of                  *)
(* controllers/schema.py and the retry loop of                             *)
(* controllers/gpt_extractor.py.                                           *)
(*                                                                         *)
(* Python values are tagged records, so that values of different Python    *)
(* types can be compared the way Python compares them.  A string is the    *)
(* sequence of its characters.  A number n stands for n/4: every number of *)
(* the model is a multiple of 0.25, on which IEEE double arithmetic is     *)
(* exact, so integer arithmetic on quarters is the arithmetic of the code. *)
(***************************************************************************)
EXTENDS Integers, Sequences, FiniteSets, TLC

VARIABLES
    page_extractions,  \* argument of consolidate_page_data
    page_idx,          \* position of the page loop (line 59), 1-based
    consolidated,      \* the accumulator of lines 46-55: section name -> value
    rec_idx,           \* position of the dedup loop (line 83), 1-based
    seen_courses,      \* line 81
    unique_records,    \* line 82
    pc,                \* where the running call is
    data,              \* argument of the metrics / integrity / schema call
    metrics,           \* outcome of calculate_verification_metrics
    validation,        \* the dict of lines 185-191, then the outcome of
                       \* validate_academic_integrity
    course_terms,      \* line 196
    compliance,        \* outcome of validate_schema_compliance
    outcomes,          \* process_transcript: what extract_from_image does
                       \* for each page of image_paths (line 248)
    page_number,       \* the loop variable i of line 246
    step,              \* where process_transcript is
    final_result,      \* lines 276-285
    max_retries,       \* gpt_extractor.py line 36
    responses,         \* what the external model does on each attempt
    attempt,           \* the loop variable of gpt_extractor.py line 110
    api_calls,         \* calls of line 112 issued so far
    extracted          \* outcome of extract_from_image

\* the state of process_transcript
processor_vars == <<outcomes, page_number, step, final_result>>

\* the state of extract_from_image
extractor_vars == <<max_retries, responses, attempt, api_calls, extracted>>

vars == <<page_extractions, page_idx, consolidated, rec_idx, seen_courses,
          unique_records, pc, data, metrics, validation, course_terms,
          compliance, processor_vars, extractor_vars>>

-----------------------------------------------------------------------------
(* Python values *)

None == [t |-> "none"]
Bool(b) == [t |-> "bool", b |-> b]
Num(n) == [t |-> "num", n |-> n]
Str(s) == [t |-> "str", s |-> s]
List(xs) == [t |-> "list", items |-> xs]
Dict(m) == [t |-> "dict", map |-> m]

EmptyMap == [k \in {} |-> None]

\* Builder for inputs: a mapping without the keys whose value is Absent.
Absent == [t |-> "absent"]
DictOf(f) == Dict([k \in {x \in DOMAIN f : f[x] # Absent} |-> f[k]])

IsDict(v) == v.t = "dict"
IsList(v) == v.t = "list"

\* bool(v)
Truthy(v) ==
    CASE v.t = "none" -> FALSE
      [] v.t = "bool" -> v.b
      [] v.t = "num"  -> v.n # 0
      [] v.t = "str"  -> v.s # << >>
      [] v.t = "list" -> v.items # << >>
      [] v.t = "dict" -> DOMAIN v.map # {}

\* d.get(k, default) on a dict d
Get(d, k, default) == IF k \in DOMAIN d.map THEN d.map[k] ELSE default

\* hash(v) succeeds
Hashable(v) == v.t \notin {"list", "dict"}

\* Outcome of a computation: a value, or a raised exception.
Ok(v) == [raised |-> FALSE, value |-> v]
Raise(e) == [raised |-> TRUE, exc |-> e]


-----------------------------------------------------------------------------
(* consolidate_page_data (data_processor.py 35-99) *)

SingletonSections ==
    {"student_information", "institution_information", "gpa_summary_info",
     "degree_information", "transfer_credits", "transcript_totals_info"}

RepeatingSections == {"honors_and_awards", "academic_records_info"}

\* lines 46-55
InitialConsolidated ==
    [s \in SingletonSections \cup RepeatingSections |->
        IF s \in SingletonSections THEN Dict(EmptyMap) ELSE List(<< >>)]

\* lines 69-70, mutated: the accumulator is not consulted (last write wins)
ShouldAssign_LastWins(acc, key, value) == value # None

\* lines 69-70: the guard of the assignment of line 71
ShouldAssign(acc, key, value) ==
    value # None /\ (key \notin DOMAIN acc \/ acc[key] = None)

\* lines 68-71: the field loop over one section of one page
MergeSection(acc, sec) ==
    LET assigned == {k \in DOMAIN sec : ShouldAssign(acc, k, sec[k])}
    IN  [k \in DOMAIN acc \cup assigned |->
            IF k \in assigned THEN sec[k] ELSE acc[k]]

\* line 67: the section is on the page and is truthy
SectionPresent(page, s) == s \in DOMAIN page.map /\ Truthy(page.map[s])

\* list.extend(v): the elements v yields when iterated.  A string yields its
\* characters; the inputs of the model hold no mapping in a repeating section.
Iterable(v) == v.t \in {"list", "str"}
Iterate(v) ==
    IF v.t = "list" THEN v.items
    ELSE [i \in 1..Len(v.s) |-> Str(<<v.s[i]>>)]

\* lines 60-78: one iteration of the page loop on accumulator acc
MergePageInto(acc, page) ==
    IF ~Truthy(page) THEN Ok(acc)                             \* lines 60-61
    ELSE IF \E s \in SingletonSections :
                SectionPresent(page, s) /\ ~IsDict(page.map[s])
    THEN Raise("AttributeError")                              \* .items(), line 68
    ELSE IF \E s \in RepeatingSections :
                SectionPresent(page, s) /\ ~Iterable(page.map[s])
    THEN Raise("TypeError")                                   \* extend, 75 / 78
    ELSE Ok([s \in DOMAIN acc |->
            IF ~SectionPresent(page, s) THEN acc[s]
            ELSE IF s \in SingletonSections
                 THEN Dict(MergeSection(acc[s].map, page.map[s].map))
                 ELSE List(acc[s].items \o Iterate(page.map[s]))])

\* repr of the first n strings of a list, as str(list) joins them
RECURSIVE ReprItems(_, _)
ReprItems(items, n) ==
    IF n = 0 THEN << >>
    ELSE ReprItems(items, n - 1) \o (IF n > 1 THEN <<",", " ">> ELSE << >>)
           \o <<"'">> \o items[n].s \o <<"'">>

\* str(v) as an f-string formats it.  The model formats null, booleans,
\* strings and lists of strings; its inputs hold no other value in a key field.
Format(v) ==
    CASE v.t = "none" -> <<"N", "o", "n", "e">>
      [] v.t = "bool" -> IF v.b THEN <<"T", "r", "u", "e">>
                         ELSE <<"F", "a", "l", "s", "e">>
      [] v.t = "str"  -> v.s
      [] v.t = "list" -> <<"[">> \o ReprItems(v.items, Len(v.items)) \o <<"]">>

\* line 85, mutated: the term is left out of the key
CourseKey_IdOnly(record) ==
    Format(Get(record, "course_id", Str(<< >>))) \o <<"-">>

\* line 85 (and line 198): f"{course_id}-{year_term}"
CourseKey(record) ==
    Format(Get(record, "course_id", Str(<< >>))) \o <<"-">>
        \o Format(Get(record, "year_term", Str(<< >>)))

\* line 86, mutated: only the key of the record just kept is remembered
KeepRecord_LastOnly(course_key, seen, kept) ==
    kept = << >> \/ course_key # CourseKey(kept[Len(kept)])

\* line 86: the record is kept when its key was not seen
KeepRecord(course_key, seen, kept) == course_key \notin seen

\* line 59, loop body 60-78; an exception leaves through lines 97-99
MergePage ==
    /\ pc = "merge"
    /\ page_idx <= Len(page_extractions)
    /\ LET r == MergePageInto(consolidated, page_extractions[page_idx])
       IN  IF r.raised
           THEN /\ pc' = "raised"
                /\ UNCHANGED <<consolidated, page_idx>>
           ELSE /\ consolidated' = r.value
                /\ page_idx' = page_idx + 1
                /\ pc' = pc
    /\ UNCHANGED <<page_extractions, rec_idx, seen_courses, unique_records,
                   data, metrics, validation, course_terms,
                   compliance>>
    /\ UNCHANGED <<processor_vars, extractor_vars>>

\* lines 81-82, after the last page
StartDedup ==
    /\ pc = "merge"
    /\ page_idx > Len(page_extractions)
    /\ pc' = "dedup"
    /\ seen_courses' = {}
    /\ unique_records' = << >>
    /\ rec_idx' = 1
    /\ UNCHANGED <<page_extractions, page_idx, consolidated,
                   data, metrics, validation, course_terms,
                   compliance>>
    /\ UNCHANGED <<processor_vars, extractor_vars>>

\* lines 83-90: one iteration of the dedup loop
DedupStep ==
    /\ pc = "dedup"
    /\ rec_idx <= Len(consolidated["academic_records_info"].items)
    /\ LET record == consolidated["academic_records_info"].items[rec_idx]
       IN  IF ~IsDict(record)
           THEN /\ pc' = "raised"                   \* record.get, line 85
                /\ UNCHANGED <<rec_idx, seen_courses, unique_records>>
           ELSE /\ pc' = pc
                /\ rec_idx' = rec_idx + 1
                /\ IF KeepRecord(CourseKey(record), seen_courses, unique_records)
                   THEN /\ seen_courses' = seen_courses \cup {CourseKey(record)}
                        /\ unique_records' = Append(unique_records, record)
                   ELSE UNCHANGED <<seen_courses, unique_records>>
    /\ UNCHANGED <<page_extractions, page_idx, consolidated,
                   data, metrics, validation, course_terms,
                   compliance>>
    /\ UNCHANGED <<processor_vars, extractor_vars>>

\* lines 92-95
ConsolidateReturn ==
    /\ pc = "dedup"
    /\ rec_idx > Len(consolidated["academic_records_info"].items)
    /\ consolidated' =
          [consolidated EXCEPT !["academic_records_info"] = List(unique_records)]
    /\ pc' = "returned"
    /\ UNCHANGED <<page_extractions, page_idx, rec_idx, seen_courses,
                   unique_records, data, metrics, validation, course_terms,
                   compliance>>
    /\ UNCHANGED <<processor_vars, extractor_vars>>

-----------------------------------------------------------------------------
(* calculate_verification_metrics (data_processor.py 101-172) *)

Digits == {"0", "1", "2", "3", "4", "5", "6", "7", "8", "9"}

DigitValue(c) ==
    CASE c = "0" -> 0 [] c = "1" -> 1 [] c = "2" -> 2 [] c = "3" -> 3
      [] c = "4" -> 4 [] c = "5" -> 5 [] c = "6" -> 6 [] c = "7" -> 7
      [] c = "8" -> 8 [] c = "9" -> 9

RECURSIVE DecimalValue(_, _)
DecimalValue(s, n) ==
    IF n = 0 THEN 0 ELSE 10 * DecimalValue(s, n - 1) + DigitValue(s[n])

\* float(s) of a non-empty string, in quarters.  The strings of the model
\* hold letters and digits only (no sign, point, exponent, blank, inf, nan).
ParseFloat(s) ==
    IF \A i \in 1..Len(s) : s[i] \in Digits
    THEN Ok(4 * DecimalValue(s, Len(s)))
    ELSE Raise("ValueError")

\* float(v or 0), lines 125, 142, 205 and 208; in quarters
FloatOrZero(v) ==
    IF ~Truthy(v) THEN Ok(0)
    ELSE CASE v.t = "num"  -> Ok(v.n)
           [] v.t = "bool" -> Ok(4)
           [] v.t = "str"  -> ParseFloat(v.s)
           [] v.t \in {"list", "dict"} -> Raise("TypeError")

\* len(v), line 113
LenOf(v) ==
    CASE v.t = "list" -> Ok(Len(v.items))
      [] v.t = "str"  -> Ok(Len(v.s))
      [] v.t = "dict" -> Ok(Cardinality(DOMAIN v.map))
      [] OTHER        -> Raise("TypeError")

\* The elements a for loop over v visits; a mapping yields no record (its
\* keys are strings), which the model stands for by one string element.
Elements(v) ==
    CASE v.t = "list" -> v.items
      [] v.t = "str"  -> [i \in 1..Len(v.s) |-> Str(<<v.s[i]>>)]
      [] v.t = "dict" -> <<Str(<<"k">>)>>

\* lines 125-126 (205-206): sum(float(record.get("credits_earned", 0) or 0) ...)
\* over the first n records
RECURSIVE SumCredits(_, _)
SumCredits(records, n) ==
    IF n = 0 THEN Ok(0)
    ELSE LET before == SumCredits(records, n - 1)
         IN  IF before.raised THEN before
             ELSE IF ~IsDict(records[n]) THEN Raise("AttributeError")
             ELSE LET f == FloatOrZero(Get(records[n], "credits_earned", Num(0)))
                  IN  IF f.raised THEN f ELSE Ok(before.value + f.value)

Abs(x) == IF x < 0 THEN -x ELSE x

\* line 144: the tolerance 0.5, in quarters
GpaTolerance == 2

\* line 144, mutated: the boundary is inside the tolerance
GpaConsistent_Inclusive(total_credits, reported_credits) ==
    Abs(total_credits - reported_credits) <= GpaTolerance

\* line 144: abs(total_credits - reported_credits) < 0.5
GpaConsistent(total_credits, reported_credits) ==
    Abs(total_credits - reported_credits) < GpaTolerance

\* line 160, mutated: a repeating section has a slot whether empty or not
ListCounts_Always(section_data) == IsList(section_data)

\* line 160: isinstance(section_data, list) and section_data
ListCounts(section_data) == IsList(section_data) /\ Truthy(section_data)

\* line 158: value is not None and value != ""
Completed(value) == value # None /\ value # Str(<< >>)

\* lines 154-157: the (section, field) pairs the loops visit
LeafFields(d) ==
    UNION {{<<s, k>> : k \in DOMAIN d.map[s].map} :
              s \in {x \in DOMAIN d.map : IsDict(d.map[x])}}

\* lines 151-162: total_fields
TotalFields(d) ==
    Cardinality(LeafFields(d))
    + Cardinality({s \in DOMAIN d.map : ListCounts(d.map[s])})

\* lines 151-162: completed_fields
CompletedFields(d) ==
    Cardinality({f \in LeafFields(d) : Completed(d.map[f[1]].map[f[2]])})
    + Cardinality({s \in DOMAIN d.map : ListCounts(d.map[s])})

\* round(x, 2) of x = 100 * num / den, in hundredths (ties to even)
RoundHundredths(num, den) ==
    LET q == (10000 * num) \div den
        r == (10000 * num) % den
    IN  IF 2 * r < den THEN q
        ELSE IF 2 * r > den THEN q + 1
        ELSE q + (q % 2)

\* lines 164-165; the score is in hundredths of a percent
CompletenessScore(d) ==
    IF TotalFields(d) > 0
    THEN RoundHundredths(CompletedFields(d), TotalFields(d))
    ELSE 0

\* lines 134-138
CourseDistribution(records) ==
    LET level(i) == Get(records[i], "course_level", Str(<<"U", "n", "k", "n", "o", "w", "n">>))
    IN  [l \in {level(i) : i \in 1..Len(records)} |->
            Cardinality({i \in 1..Len(records) : level(i) = l})]

\* lines 112-168: the body of the try block.  Quantities are in quarters,
\* the completeness score in hundredths.
MetricsBody(d) ==
    IF ~IsDict(d) THEN Raise("AttributeError")                \* line 113
    ELSE
    LET recs == Get(d, "academic_records_info", List(<< >>))
        n == LenOf(recs)
    IN  IF n.raised THEN n                                     \* line 113
        ELSE
        LET academic_records == IF Truthy(recs) THEN Elements(recs) ELSE << >>
            total == SumCredits(academic_records, Len(academic_records))
            transcript_totals == Get(d, "transcript_totals_info", Dict(EmptyMap))
            reported == IF IsDict(transcript_totals)
                        THEN FloatOrZero(Get(transcript_totals,
                                             "overall_earned_hours", Num(0)))
                        ELSE Raise("AttributeError")
            base == [total_courses |-> n.value,
                     total_credits_calculated |-> 0,
                     average_grade |-> None,
                     gpa_consistency_check |-> FALSE,
                     data_completeness_score |-> CompletenessScore(d),
                     unique_terms |-> 0,
                     course_distribution |-> EmptyMap]
        IN  IF ~Truthy(recs) THEN Ok(base)                    \* line 124
            ELSE IF total.raised THEN total                   \* line 125
            ELSE IF \E i \in 1..Len(academic_records) :
                      \/ ~Hashable(Get(academic_records[i], "year_term", Str(<< >>)))
                      \/ ~Hashable(Get(academic_records[i], "course_level", None))
            THEN Raise("TypeError")                           \* lines 130, 137
            ELSE IF reported.raised THEN reported             \* lines 141-142
            ELSE Ok([base EXCEPT
                    !.total_credits_calculated = total.value,
                    !.unique_terms =
                        Cardinality({Get(academic_records[i], "year_term", Str(<< >>)) :
                                        i \in 1..Len(academic_records)}),
                    !.course_distribution = CourseDistribution(academic_records),
                    !.gpa_consistency_check =
                        GpaConsistent(total.value, reported.value)])

\* lines 111-172, mutated: no except clause
calculate_verification_metrics_NoExcept(d) == MetricsBody(d)

\* lines 111-172: try ... except Exception: return {}
calculate_verification_metrics(d) ==
    LET r == MetricsBody(d)
    IN  IF r.raised THEN Ok(EmptyMap) ELSE r

\* the call of calculate_verification_metrics and its outcome
CalculateVerificationMetrics ==
    /\ pc = "call_metrics"
    /\ metrics' = calculate_verification_metrics(data)
    /\ pc' = IF metrics'.raised THEN "raised" ELSE "returned"
    /\ UNCHANGED <<page_extractions, page_idx, consolidated, rec_idx,
                   seen_courses, unique_records, data, validation, course_terms,
                   compliance>>
    /\ UNCHANGED <<processor_vars, extractor_vars>>

-----------------------------------------------------------------------------
(* validate_academic_integrity (data_processor.py 174-222) *)

\* lines 185-191, mutated: the reserved flag starts false
InitialValidation_SequenceFalse ==
    [credit_calculation_valid |-> FALSE, gpa_calculation_valid |-> FALSE,
     course_sequence_valid |-> FALSE, duplicate_courses_found |-> FALSE,
     warnings |-> << >>]

\* lines 185-191
InitialValidation ==
    [credit_calculation_valid |-> FALSE, gpa_calculation_valid |-> FALSE,
     course_sequence_valid |-> TRUE, duplicate_courses_found |-> FALSE,
     warnings |-> << >>]

\* line 222: {"error": str(e)}; the message is stood for by the exception
ErrorResult(e) == [error |-> e]

\* line 201: f"Duplicate course found: {course_term}"
DuplicateWarning(course_term) == [kind |-> "duplicate", key |-> course_term]

\* lines 213-215: f"Credit mismatch: calculated {...}, reported {...}"
MismatchWarning(calculated_credits, reported_credits) ==
    [kind |-> "credit_mismatch", calculated |-> calculated_credits,
     reported |-> reported_credits]

\* line 210: the tolerance 1.0, in quarters
CreditTolerance == 4

\* line 210, mutated: the tolerance is 0.25, tighter than that of line 144
CreditsAgree_Tight(calculated_credits, reported_credits) ==
    4 * Abs(calculated_credits - reported_credits) < CreditTolerance

\* line 210, mutated: the boundary is inside the tolerance
CreditsAgree_Inclusive(calculated_credits, reported_credits) ==
    Abs(calculated_credits - reported_credits) <= CreditTolerance

\* line 210: abs(calculated_credits - reported_credits) < 1.0
CreditsAgree(calculated_credits, reported_credits) ==
    Abs(calculated_credits - reported_credits) < CreditTolerance

\* line 197: the for loop can iterate over the value
CanIterate(v) == v.t \in {"list", "str", "dict"}

\* lines 184-193 and the start of the loop of line 197
IntegrityStart ==
    /\ pc = "call_integrity"
    /\ IF ~IsDict(data)
       THEN /\ validation' = ErrorResult("AttributeError")    \* line 193
            /\ pc' = "returned"
            /\ UNCHANGED <<course_terms, rec_idx>>
       ELSE IF ~CanIterate(Get(data, "academic_records_info", List(<< >>)))
       THEN /\ validation' = ErrorResult("TypeError")         \* line 197
            /\ pc' = "returned"
            /\ UNCHANGED <<course_terms, rec_idx>>
       ELSE /\ validation' = InitialValidation
            /\ course_terms' = {}
            /\ rec_idx' = 1
            /\ pc' = "scan"
    /\ UNCHANGED <<page_extractions, page_idx, consolidated, seen_courses,
                   unique_records, data, metrics, compliance>>
    /\ UNCHANGED <<processor_vars, extractor_vars>>

\* lines 197-202: one iteration of the duplicate scan
IntegrityScanStep ==
    /\ pc = "scan"
    /\ LET academic_records ==
               Elements(Get(data, "academic_records_info", List(<< >>)))
       IN  /\ rec_idx <= Len(academic_records)
           /\ LET record == academic_records[rec_idx]
              IN  IF ~IsDict(record)
                  THEN /\ validation' = ErrorResult("AttributeError")
                       /\ pc' = "returned"
                       /\ UNCHANGED <<course_terms, rec_idx>>
                  ELSE /\ validation' =
                            IF CourseKey(record) \in course_terms
                            THEN [validation EXCEPT
                                    !.duplicate_courses_found = TRUE,
                                    !.warnings = Append(@,
                                        DuplicateWarning(CourseKey(record)))]
                            ELSE validation
                       /\ course_terms' = course_terms \cup {CourseKey(record)}
                       /\ rec_idx' = rec_idx + 1
                       /\ pc' = pc
    /\ UNCHANGED <<page_extractions, page_idx, consolidated, seen_courses,
                   unique_records, data, metrics, compliance>>
    /\ UNCHANGED <<processor_vars, extractor_vars>>

\* lines 204-222: the credit validation after the scan, and the return
IntegrityCredits ==
    /\ pc = "scan"
    /\ LET academic_records ==
               Elements(Get(data, "academic_records_info", List(<< >>)))
           calculated == SumCredits(academic_records, Len(academic_records))
           transcript_totals == Get(data, "transcript_totals_info", Dict(EmptyMap))
           reported == IF IsDict(transcript_totals)
                       THEN FloatOrZero(Get(transcript_totals,
                                            "overall_earned_hours", Num(0)))
                       ELSE Raise("AttributeError")
       IN  /\ rec_idx > Len(academic_records)
           /\ validation' =
                 IF calculated.raised THEN ErrorResult(calculated.exc)
                 ELSE IF reported.raised THEN ErrorResult(reported.exc)
                 ELSE IF CreditsAgree(calculated.value, reported.value)
                 THEN [validation EXCEPT !.credit_calculation_valid = TRUE]
                 ELSE [validation EXCEPT !.warnings = Append(@,
                          MismatchWarning(calculated.value, reported.value))]
    /\ pc' = "returned"
    /\ UNCHANGED <<page_extractions, page_idx, consolidated, rec_idx,
                   seen_courses, unique_records, data, metrics, course_terms,
                   compliance>>
    /\ UNCHANGED <<processor_vars, extractor_vars>>

-----------------------------------------------------------------------------
(* validate_schema_compliance (schema.py 104-135) and                      *)
(* GPTVisionExtractor.validate_extraction (gpt_extractor.py 166-176)       *)

\* line 116: list(TRANSCRIPT_SCHEMA.keys()), the keys of lines 14-101
RequiredKeys == SingletonSections \cup RepeatingSections

\* A string that reads as one section name; inside a longer string the name
\* is one element of the sequence.
NameStr(k) == Str(<<k>>)

\* key in data, lines 117 and 124
Contains(d, key) ==
    CASE d.t = "dict" -> Ok(key \in DOMAIN d.map)
      [] d.t = "list" -> Ok(\E i \in 1..Len(d.items) : d.items[i] = NameStr(key))
      [] d.t = "str"  -> Ok(\E i \in 1..Len(d.s) : d.s[i] = key)
      [] OTHER        -> Raise("TypeError")

\* lines 125-128, mutated: the entries are not looked at
RecordsWellFormed_Unchecked(v) == Ok(TRUE)

\* lines 125-128: every entry the loop visits is a dict
RecordsWellFormed(v) ==
    IF ~CanIterate(v) THEN Raise("TypeError")
    ELSE Ok(\A i \in 1..Len(Elements(v)) : IsDict(Elements(v)[i]))

\* lines 115-131: the body of the try block
SchemaBody(d) ==
    IF Contains(d, "academic_records_info").raised
    THEN Raise("TypeError")                                   \* line 117
    ELSE IF \E key \in RequiredKeys : ~Contains(d, key).value
    THEN Ok(FALSE)                                            \* lines 119-121
    ELSE IF ~IsDict(d)
    THEN Raise("TypeError")                                   \* data[...], line 124
    ELSE IF ~Truthy(d.map["academic_records_info"])
    THEN Ok(TRUE)
    ELSE RecordsWellFormed(d.map["academic_records_info"])    \* lines 125-131

\* lines 114-135, mutated: no except clause
validate_schema_compliance_NoExcept(d) == SchemaBody(d)

\* lines 114-135: try ... except Exception: return False
validate_schema_compliance(d) ==
    LET r == SchemaBody(d)
    IN  IF r.raised THEN Ok(FALSE) ELSE r

\* gpt_extractor.py 166-176
validate_extraction(d) == validate_schema_compliance(d)

\* the call of validate_extraction and its outcome
ValidateExtraction ==
    /\ pc = "call_validate"
    /\ compliance' = validate_extraction(data)
    /\ pc' = IF compliance'.raised THEN "raised" ELSE "returned"
    /\ UNCHANGED <<page_extractions, page_idx, consolidated, rec_idx,
                   seen_courses, unique_records, data, metrics, validation,
                   course_terms>>
    /\ UNCHANGED <<processor_vars, extractor_vars>>

-----------------------------------------------------------------------------
(* GPTVisionExtractor.extract_from_image (gpt_extractor.py 86-164), from   *)
(* the retry loop of line 110 on: the image is encoded and the prompt is   *)
(* built.                                                                  *)

\* What the external model does on one call of line 112: the call raises,
\* or it answers with a message whose content is missing, is text that is
\* no JSON, or is the JSON text of value, bare or inside a code fence.
ApiFailure == [kind |-> "api_error"]
NoContent == [kind |-> "no_content"]
NotJson == [kind |-> "text"]
Json(value) == [kind |-> "json", value |-> value]
FencedJson(value) == [kind |-> "fenced_json", value |-> value]
Fenced(value) == [kind |-> "fenced", value |-> value]

\* lines 112-145: one call and the parsing of its answer
AttemptOutcome(response) ==
    CASE response.kind = "api_error"  -> Raise("APIError")         \* line 112
      [] response.kind = "no_content" -> Raise("AttributeError")   \* line 137
      [] response.kind = "text"       -> Raise("JSONDecodeError")  \* line 145
      [] response.kind \in {"json", "fenced_json", "fenced"}
                                      -> Ok(response.value)    \* lines 140-145

\* lines 110-160: one iteration of the retry loop
Attempt ==
    /\ pc = "attempt"
    /\ attempt < max_retries
    /\ api_calls' = api_calls + 1
    /\ LET r == AttemptOutcome(responses[attempt + 1])
       IN  IF ~r.raised
           THEN /\ extracted' = r                              \* line 148
                /\ pc' = "returned"
                /\ UNCHANGED attempt
           ELSE IF attempt = max_retries - 1
           THEN /\ extracted' = r                 \* lines 152-153, 158-159, 164
                /\ pc' = "raised"
                /\ UNCHANGED attempt
           ELSE /\ attempt' = attempt + 1                  \* lines 154 and 160
                /\ UNCHANGED <<extracted, pc>>
    /\ UNCHANGED <<page_extractions, page_idx, consolidated, rec_idx,
                   seen_courses, unique_records, data, metrics, validation,
                   course_terms, compliance, processor_vars, max_retries,
                   responses>>

\* line 110 when range(self.max_retries) is used up: the function body ends
\* and Python returns None
LoopExhausted ==
    /\ pc = "attempt"
    /\ attempt >= max_retries
    /\ extracted' = Ok(None)
    /\ pc' = "returned"
    /\ UNCHANGED <<page_extractions, page_idx, consolidated, rec_idx,
                   seen_courses, unique_records, data, metrics, validation,
                   course_terms, compliance, processor_vars, max_retries,
                   responses, attempt, api_calls>>

-----------------------------------------------------------------------------
(* process_transcript (data_processor.py 224-292), from the extraction     *)
(* loop of line 246 on.  The calls of consolidate_page_data,               *)
(* calculate_verification_metrics and validate_academic_integrity run the  *)
(* actions above; step says which call of process_transcript is open.      *)

\* lines 257 and 261: {}
EmptyPage == Dict(EmptyMap)

\* line 240: len(image_paths); outcomes holds one entry for each image
total_pages == Len(outcomes)

\* lines 247-261, mutated: no except clause around the extraction
PageSlot_NoExcept(outcome) ==
    IF outcome.raised THEN outcome
    ELSE IF validate_extraction(outcome.value).value
         THEN Ok(outcome.value)
         ELSE Ok(EmptyPage)

\* lines 247-261: what one page appends to page_extractions
PageSlot(outcome) ==
    IF outcome.raised THEN Ok(EmptyPage)                      \* lines 259-261
    ELSE IF validate_extraction(outcome.value).value
         THEN Ok(outcome.value)                               \* lines 252-253
         ELSE Ok(EmptyPage)                                   \* lines 255-257

\* line 280, mutated: every slot is counted
PagesProcessed_All(pages) == Len(pages)

\* line 280: len([p for p in page_extractions if p])
PagesProcessed(pages) ==
    Cardinality({i \in 1..Len(pages) : Truthy(pages[i])})

\* lines 246-261: one iteration of the extraction loop
ExtractPage ==
    /\ step = "extract"
    /\ page_number <= total_pages
    /\ LET slot == PageSlot(outcomes[page_number])
       IN  IF slot.raised
           THEN /\ step' = "raised"                           \* lines 290-292
                /\ UNCHANGED <<page_extractions, page_number>>
           ELSE /\ page_extractions' = Append(page_extractions, slot.value)
                /\ page_number' = page_number + 1
                /\ step' = step
    /\ UNCHANGED <<page_idx, consolidated, rec_idx, seen_courses,
                   unique_records, pc, data, metrics, validation,
                   course_terms, compliance, outcomes, final_result,
                   extractor_vars>>

\* line 265: the call of consolidate_page_data (lines 46-57), after the loop
CallConsolidate ==
    /\ step = "extract"
    /\ page_number > total_pages
    /\ step' = "consolidate"
    /\ pc' = "merge"
    /\ page_idx' = 1
    /\ consolidated' = InitialConsolidated
    /\ UNCHANGED <<page_extractions, rec_idx, seen_courses, unique_records,
                   data, metrics, validation, course_terms, compliance,
                   outcomes, page_number, final_result, extractor_vars>>

\* lines 290-292: the exception consolidate_page_data re-raised (lines 97-99)
\* leaves process_transcript
ConsolidationFailed ==
    /\ step = "consolidate"
    /\ pc = "raised"
    /\ step' = "raised"
    /\ UNCHANGED <<page_extractions, page_idx, consolidated, rec_idx,
                   seen_courses, unique_records, pc, data, metrics,
                   validation, course_terms, compliance, outcomes,
                   page_number, final_result, extractor_vars>>

\* lines 265-269: consolidated_data is bound, calculate_verification_metrics
\* is called on it
CallMetrics ==
    /\ step = "consolidate"
    /\ pc = "returned"
    /\ data' = Dict(consolidated)
    /\ step' = "metrics"
    /\ pc' = "call_metrics"
    /\ UNCHANGED <<page_extractions, page_idx, consolidated, rec_idx,
                   seen_courses, unique_records, metrics, validation,
                   course_terms, compliance, outcomes, page_number,
                   final_result, extractor_vars>>

\* lines 269-273: verification_metrics is bound, validate_academic_integrity
\* is called on the same data
CallIntegrity ==
    /\ step = "metrics"
    /\ pc = "returned"
    /\ step' = "integrity"
    /\ pc' = "call_integrity"
    /\ UNCHANGED <<page_extractions, page_idx, consolidated, rec_idx,
                   seen_courses, unique_records, data, metrics, validation,
                   course_terms, compliance, outcomes, page_number,
                   final_result, extractor_vars>>

\* lines 276-288: the final report
BuildReport ==
    /\ step = "integrity"
    /\ pc = "returned"
    /\ final_result' =
          [transcript_data |-> data,
           processing_metadata |->
              [total_pages |-> total_pages,
               pages_processed |-> PagesProcessed(page_extractions),
               verification_metrics |-> metrics.value,
               integrity_validation |-> validation,
               deduplication_method |-> "course_id_plus_term"]]
    /\ step' = "returned"
    /\ UNCHANGED <<page_extractions, page_idx, consolidated, rec_idx,
                   seen_courses, unique_records, pc, data, metrics,
                   validation, course_terms, compliance, outcomes,
                   page_number, extractor_vars>>

-----------------------------------------------------------------------------
(* Inputs of consolidate_page_data *)

\* The most pages of one document.
MaxPages == 3

Alice == Str(<<"A", "l", "i", "c", "e">>)
Bob == Str(<<"B", "o", "b">>)
TermB == Str(<<"b">>)

\* An academic record; Absent leaves the field out.
Record(course_id, year_term, credits_earned, course_level) ==
    DictOf([course_id |-> course_id, year_term |-> year_term,
            credits_earned |-> credits_earned, course_level |-> course_level])

RecA3 == Record(Str(<<"a">>), TermB, Num(12), Str(<<"U">>))
RecA4 == Record(Str(<<"a">>), TermB, Num(16), Absent)
RecDashId == Record(Str(<<"a", "-">>), TermB, Num(4), Absent)
RecDashTerm == Record(Str(<<"a">>), Str(<<"-", "b">>), Num(8), Absent)
RecNoId == Record(Absent, TermB, Num(2), Absent)
RecEmptyId == Record(Str(<< >>), TermB, None, Absent)
RecNullId == Record(None, TermB, Absent, Absent)
RecNoneId == Record(Str(<<"N", "o", "n", "e">>), TermB, Str(<<"3">>), Absent)
RecBad == Record(Str(<<"c">>), TermB, Str(<<"b", "a", "d">>), Absent)

Honor == Dict([honor_name |-> Str(<<"H">>)])

Page(student, totals, records, honors) ==
    DictOf([student_information |-> student, transcript_totals_info |-> totals,
            academic_records_info |-> records, honors_and_awards |-> honors])

PageSet ==
    { Dict(EmptyMap),
      Page(Dict([student_name |-> None]), Absent, List(<<RecA3>>), Absent),
      Page(Dict([student_name |-> Alice]), Dict(EmptyMap),
           List(<<RecA4, RecDashId>>), List(<< >>)),
      Page(Dict([student_name |-> Bob, student_id |-> Str(<<"7">>)]),
           Dict([overall_earned_hours |-> None]), List(<<RecDashTerm>>),
           List(<<Honor>>)),
      Page(Dict([student_id |-> None]), Dict([overall_earned_hours |-> Num(12)]),
           List(<<RecNoId, RecEmptyId>>), List(<<Honor>>)),
      Page(Absent, Dict([overall_earned_hours |-> Num(16)]),
           List(<<RecNullId, RecNoneId>>), Absent),
      Page(None, None, List(<<RecBad, RecA3>>), None),
      \* a section with a value of an unexpected type
      Page(Str(<<"x">>), Absent, List(<<RecA3>>), Absent),
      Page(Absent, Absent, Str(<<"a", "b">>), Absent),
      Page(Absent, Absent, List(<<RecA3, Str(<<"x">>)>>), Absent) }

PageSequences == UNION {[1..n -> PageSet] : n \in 0..MaxPages}

NoCall == [t |-> "nocall"]

\* process_transcript is not running
ProcessorIdle ==
    /\ outcomes = << >>
    /\ page_number = 1
    /\ step = "none"
    /\ final_result = NoCall

\* gpt_extractor.py line 25: max_retries: int = 3
DefaultMaxRetries == 3

\* a constructed extractor (gpt_extractor.py 25-37) on which
\* extract_from_image is not running
ExtractorIdle ==
    /\ max_retries = DefaultMaxRetries
    /\ responses = << >>
    /\ attempt = 0
    /\ api_calls = 0
    /\ extracted = NoCall

Init ==
    /\ page_extractions \in PageSequences
    /\ page_idx = 1
    /\ consolidated = InitialConsolidated
    /\ rec_idx = 0
    /\ seen_courses = {}
    /\ unique_records = << >>
    /\ pc = "merge"
    /\ data = None
    /\ metrics = NoCall
    /\ validation = NoCall
    /\ course_terms = {}
    /\ compliance = NoCall
    /\ ProcessorIdle
    /\ ExtractorIdle

Next == MergePage \/ StartDedup \/ DedupStep \/ ConsolidateReturn

Spec == Init /\ [][Next]_vars

-----------------------------------------------------------------------------
(* Claims about consolidate_page_data *)

Min(S) == CHOOSE x \in S : \A y \in S : x <= y

FieldNames == {"student_name", "student_id", "overall_earned_hours"}

\* The page has a non-empty section s with a non-null value for field k.
Supplies(page, s, k) ==
    /\ IsDict(page)
    /\ s \in DOMAIN page.map
    /\ IsDict(page.map[s])
    /\ k \in DOMAIN page.map[s].map
    /\ page.map[s].map[k] # None

\* C1: after any number of merged pages, every field of every singleton
\* section holds the value of the first merged page that supplies a non-null
\* value for it, and is absent when no merged page supplies one; so a later
\* page never changes a field that is set.
C1_FirstNonNullWins ==
    \A s \in SingletonSections : \A k \in FieldNames :
        LET suppliers == {i \in 1..(page_idx - 1) :
                              Supplies(page_extractions[i], s, k)}
        IN  IF suppliers = {}
            THEN k \notin DOMAIN consolidated[s].map
            ELSE /\ k \in DOMAIN consolidated[s].map
                 /\ consolidated[s].map[k] =
                      page_extractions[Min(suppliers)].map[s].map[k]

\* The scenario P1 = {name: null}, P2 = {name: "Alice"}, P3 = {name: "Bob"}.
C1_Witness ==
    /\ pc = "returned"
    /\ Len(page_extractions) = 3
    /\ \A i \in 1..3 : IsDict(page_extractions[i])
          /\ "student_information" \in DOMAIN page_extractions[i].map
          /\ IsDict(page_extractions[i].map["student_information"])
          /\ "student_name" \in
                DOMAIN page_extractions[i].map["student_information"].map
    /\ page_extractions[1].map["student_information"].map["student_name"] = None
    /\ page_extractions[2].map["student_information"].map["student_name"] = Alice
    /\ page_extractions[3].map["student_information"].map["student_name"] = Bob
    /\ consolidated["student_information"].map["student_name"] = Alice

\* The academic records of the first n pages, in page then entry order.
RECURSIVE RecordsOfPages(_, _)
RecordsOfPages(pages, n) ==
    IF n = 0 THEN << >>
    ELSE RecordsOfPages(pages, n - 1) \o
           (IF IsDict(pages[n]) /\ SectionPresent(pages[n], "academic_records_info")
            THEN Iterate(pages[n].map["academic_records_info"])
            ELSE << >>)

\* The entries of the first n of seq whose key no earlier entry has.
RECURSIVE FirstOfEachKey(_, _)
FirstOfEachKey(seq, n) ==
    IF n = 0 THEN << >>
    ELSE IF \E j \in 1..(n - 1) : CourseKey(seq[j]) = CourseKey(seq[n])
         THEN FirstOfEachKey(seq, n - 1)
         ELSE Append(FirstOfEachKey(seq, n - 1), seq[n])

\* C2: the returned academic_records_info is the concatenation of the pages'
\* records with, for each dedup key (the key string of line 85), only the
\* first entry kept, unchanged; no two entries of it share a key.
C2_DedupResult ==
    pc = "returned" =>
        LET all == RecordsOfPages(page_extractions, Len(page_extractions))
            result == consolidated["academic_records_info"].items
        IN  /\ result = FirstOfEachKey(all, Len(all))
            /\ \A i, j \in 1..Len(result) :
                  i # j => CourseKey(result[i]) # CourseKey(result[j])

\* Two records with the same key and different credits: the first survives,
\* and a record with another key lies between the two.
C2_Witness ==
    /\ pc = "returned"
    /\ LET all == RecordsOfPages(page_extractions, Len(page_extractions))
           result == consolidated["academic_records_info"].items
       IN  /\ \E i, j \in 1..Len(all) :
                /\ i + 1 < j
                /\ all[i] = RecA4 /\ all[j] = RecA3
                /\ CourseKey(all[i + 1]) # CourseKey(RecA4)
           /\ \E i \in 1..Len(result) : result[i] = RecA4
           /\ \A i \in 1..Len(result) : result[i] # RecA3

-----------------------------------------------------------------------------
(* Inputs of calculate_verification_metrics and validate_academic_integrity *)

\* The most academic records of one transcript.
MaxRecords == 4

Bad == Str(<<"b", "a", "d">>)

CreditValues == {Absent, None, Num(1), Num(12), Num(16), Str(<<"3">>), Bad}

CreditRecords == {Record(Str(<<"a">>), TermB, c, Absent) : c \in CreditValues}

CreditRecordLists == UNION {[1..n -> CreditRecords] : n \in 0..MaxRecords}

\* transcript_totals_info: Absent leaves the section out of the transcript
TotalsValues ==
    { Absent, Dict(EmptyMap), Dict([overall_earned_hours |-> None]),
      Dict([overall_earned_hours |-> Num(12)]),
      Dict([overall_earned_hours |-> Num(28)]),
      Dict([overall_earned_hours |-> Bad]), None }

StudentValues ==
    { Dict(EmptyMap), Dict([student_name |-> Alice]),
      Dict([student_name |-> Alice, student_id |-> None,
            email |-> Str(<< >>)]) }

\* A transcript with the sections of lines 46-55.
Transcript(student, totals, records, honors) ==
    DictOf([student_information |-> student,
            institution_information |-> Dict(EmptyMap),
            gpa_summary_info |-> Dict(EmptyMap),
            degree_information |-> Dict(EmptyMap),
            honors_and_awards |-> honors,
            transfer_credits |-> Dict(EmptyMap),
            transcript_totals_info |-> totals,
            academic_records_info |-> records])

\* Values of unexpected types, as an untrusted extraction may hold.
MalformedData ==
    { None, List(<< >>), Str(<<"x">>), Num(4), Dict(EmptyMap),
      Dict([academic_records_info |-> None]),
      Dict([academic_records_info |-> Num(20)]),
      Dict([academic_records_info |-> Str(<<"a", "b">>)]),
      Dict([academic_records_info |-> Str(<< >>)]),
      Dict([academic_records_info |-> Dict([k |-> None])]),
      Dict([academic_records_info |-> List(<<RecA3, Str(<<"x">>)>>)]),
      Dict([academic_records_info |-> List(<<RecA3, None>>)]),
      Dict([academic_records_info |->
               List(<<Record(Str(<<"a">>), List(<<TermB>>), Num(12), Absent)>>)]),
      Dict([academic_records_info |->
               List(<<Record(Str(<<"a">>), TermB, List(<<Num(12)>>), Absent)>>)]),
      Dict([academic_records_info |->
               List(<<Record(Str(<<"a">>), TermB, Num(12), Dict(EmptyMap))>>)]),
      Dict([academic_records_info |-> List(<<RecA3>>),
            transcript_totals_info |-> Str(<<"x">>)]),
      Dict([student_information |-> Str(<<"x">>),
            honors_and_awards |-> Num(4),
            academic_records_info |-> List(<<RecA3, RecA4>>)]) }

MetricsInputs ==
    {Transcript(Dict([student_name |-> Alice]), t, List(r), List(<< >>)) :
        t \in TotalsValues, r \in CreditRecordLists}
    \cup {Transcript(st, t, List(r), h) :
            st \in StudentValues, t \in TotalsValues,
            r \in {<< >>, <<RecA3>>}, h \in {List(<< >>), List(<<Honor>>)}}
    \cup MalformedData

MetricsInit ==
    /\ data \in MetricsInputs
    /\ pc = "call_metrics"
    /\ metrics = NoCall
    /\ page_extractions = << >>
    /\ page_idx = 1
    /\ consolidated = InitialConsolidated
    /\ rec_idx = 0
    /\ seen_courses = {}
    /\ unique_records = << >>
    /\ validation = NoCall
    /\ course_terms = {}
    /\ compliance = NoCall
    /\ ProcessorIdle
    /\ ExtractorIdle

MetricsNext == CalculateVerificationMetrics

SpecMetrics == MetricsInit /\ [][MetricsNext]_vars

-----------------------------------------------------------------------------
(* Claims about calculate_verification_metrics *)

DigitString(v) ==
    v.t = "str" /\ v.s # << >> /\ (\A i \in 1..Len(v.s) : v.s[i] \in Digits)

\* The value is a number, a numeric string, or null / empty (read as 0).
Convertible(v) == v.t = "num" \/ DigitString(v) \/ ~Truthy(v)

\* What a credits value contributes according to the specification:
\* missing, null and non-numeric values contribute 0.  In quarters.
ClaimedCredit(v) ==
    IF v.t = "num" THEN v.n
    ELSE IF DigitString(v) THEN 4 * DecimalValue(v.s, Len(v.s))
    ELSE 0

RECURSIVE ClaimedSum(_, _)
ClaimedSum(records, n) ==
    IF n = 0 THEN 0
    ELSE ClaimedSum(records, n - 1)
           + ClaimedCredit(Get(records[n], "credits_earned", None))

\* overall_earned_hours of the totals section, 0 when absent or null
ClaimedReported(d) ==
    IF "transcript_totals_info" \in DOMAIN d.map
    THEN ClaimedCredit(Get(d.map["transcript_totals_info"],
                           "overall_earned_hours", None))
    ELSE 0

\* The shape consolidate_page_data returns: the sections present are
\* mappings, the academic records a list of mappings with hashable
\* year_term and course_level.
IsTranscript(d) ==
    /\ IsDict(d)
    /\ \A s \in SingletonSections : s \in DOMAIN d.map => IsDict(d.map[s])
    /\ "academic_records_info" \in DOMAIN d.map
    /\ IsList(d.map["academic_records_info"])
    /\ \A i \in 1..Len(d.map["academic_records_info"].items) :
          LET r == d.map["academic_records_info"].items[i]
          IN  /\ IsDict(r)
              /\ Hashable(Get(r, "year_term", None))
              /\ Hashable(Get(r, "course_level", None))

RecordsOf(d) == d.map["academic_records_info"].items

ReportedConvertible(d) ==
    "transcript_totals_info" \in DOMAIN d.map =>
        Convertible(Get(d.map["transcript_totals_info"],
                        "overall_earned_hours", None))

MetricsReturned == pc = "returned" /\ metrics # NoCall

\* C3 (as claimed): total_credits_calculated is always reported and is the
\* sum of credits_earned with missing, null and non-numeric values as 0.
C3_CreditSumAsClaimed ==
    (MetricsReturned /\ IsTranscript(data) /\ ReportedConvertible(data)
        /\ \A i \in 1..Len(RecordsOf(data)) :
              Get(RecordsOf(data)[i], "credits_earned", None).t
                  \in {"none", "num", "str"}) =>
        /\ "total_credits_calculated" \in DOMAIN metrics.value
        /\ metrics.value["total_credits_calculated"] =
              ClaimedSum(RecordsOf(data), Len(RecordsOf(data)))

\* C4 (as claimed): also for an empty academic_records_info,
\* gpa_consistency_check is true iff |total - overall_earned_hours| < 0.5.
C4_GpaCheckAsClaimed ==
    (MetricsReturned /\ IsTranscript(data) /\ ReportedConvertible(data)
        /\ metrics.value # EmptyMap) =>
        metrics.value["gpa_consistency_check"] =
            (Abs(metrics.value["total_credits_calculated"]
                 - ClaimedReported(data)) < GpaTolerance)

GpaCheckTrue ==
    /\ "gpa_consistency_check" \in DOMAIN metrics.value
    /\ metrics.value["gpa_consistency_check"] = TRUE

\* C4 (amended): gpa_consistency_check is reported true exactly when
\* academic_records_info is non-empty, every credits_earned and
\* overall_earned_hours converts to a number (null or absent as 0), and
\* |sum of credits_earned - overall_earned_hours| < 0.5.
C4_GpaCheck ==
    (MetricsReturned /\ IsTranscript(data)) =>
        (GpaCheckTrue <=>
            /\ RecordsOf(data) # << >>
            /\ \A i \in 1..Len(RecordsOf(data)) :
                  Convertible(Get(RecordsOf(data)[i], "credits_earned", None))
            /\ ReportedConvertible(data)
            /\ Abs(ClaimedSum(RecordsOf(data), Len(RecordsOf(data)))
                   - ClaimedReported(data)) < GpaTolerance)

\* Records summing to 3.25 against 3.0 reported: inside the tolerance.
C4_Witness ==
    /\ MetricsReturned /\ IsTranscript(data)
    /\ Len(RecordsOf(data)) = 3
    /\ \E i \in 1..3 : Get(RecordsOf(data)[i], "credits_earned", Absent) = None
    /\ ClaimedSum(RecordsOf(data), 3) = 13
    /\ ClaimedReported(data) = 12
    /\ GpaCheckTrue

\* The leaf fields of the mapping sections that are neither null nor "".
ClaimedCompleted(d) ==
    Cardinality({f \in LeafFields(d) :
                    LET v == d.map[f[1]].map[f[2]]
                    IN  v.t # "none" /\ ~(v.t = "str" /\ v.s = << >>)})

ListSections(d) == {s \in DOMAIN d.map : d.map[s].t = "list"}
NonEmptyListSections(d) == {s \in ListSections(d) : d.map[s].items # << >>}

\* score (in hundredths) is 100 * c / t rounded to two decimals, 0 when t = 0
IsScoreOf(score, c, t) ==
    /\ score \in 0..10000
    /\ IF t = 0 THEN score = 0 ELSE 2 * Abs(score * t - 10000 * c) <= t

\* C5 (as claimed): the total counts one slot for each repeating section,
\* empty or not.
C5_CompletenessAsClaimed ==
    (MetricsReturned /\ IsDict(data)
        /\ "data_completeness_score" \in DOMAIN metrics.value) =>
        IsScoreOf(metrics.value["data_completeness_score"],
                  ClaimedCompleted(data)
                      + Cardinality(NonEmptyListSections(data)),
                  Cardinality(LeafFields(data))
                      + Cardinality(ListSections(data)))

\* C5 (amended): whenever a score is reported it is 100 * C / T rounded to
\* two decimals, where T counts the leaf fields of the mapping sections and
\* one slot for each NON-EMPTY repeating section; it is 0 when T = 0 and
\* lies between 0 and 100.
C5_Completeness ==
    (MetricsReturned /\ IsDict(data)
        /\ "data_completeness_score" \in DOMAIN metrics.value) =>
        IsScoreOf(metrics.value["data_completeness_score"],
                  ClaimedCompleted(data)
                      + Cardinality(NonEmptyListSections(data)),
                  Cardinality(LeafFields(data))
                      + Cardinality(NonEmptyListSections(data)))

\* One populated field, both repeating sections empty: the score is 100.00.
C5_Witness ==
    /\ MetricsReturned /\ IsTranscript(data)
    /\ Cardinality(LeafFields(data)) = 1
    /\ ClaimedCompleted(data) = 1
    /\ Cardinality(ListSections(data)) = 2
    /\ NonEmptyListSections(data) = {}
    /\ metrics.value["data_completeness_score"] = 10000

\* The number of academic records of the data.
RecordCount(d) ==
    IF "academic_records_info" \in DOMAIN d.map
          /\ IsList(d.map["academic_records_info"])
    THEN Len(d.map["academic_records_info"].items)
    ELSE 0

\* C6: calculate_verification_metrics never raises; it returns {} or a
\* metrics object whose total_courses is the number of academic records, and
\* it returns {} for data that is no mapping.
C6_MetricsTotal ==
    /\ pc # "raised"
    /\ MetricsReturned =>
          /\ ~metrics.raised
          /\ \/ metrics.value = EmptyMap
             \/ /\ IsDict(data)
                /\ "total_courses" \in DOMAIN metrics.value
                /\ metrics.value["total_courses"] = RecordCount(data)
          /\ ~IsDict(data) => metrics.value = EmptyMap

\* A record that is no mapping inside the records: {} comes back.
C6_Witness ==
    /\ MetricsReturned
    /\ IsDict(data)
    /\ "academic_records_info" \in DOMAIN data.map
    /\ IsList(data.map["academic_records_info"])
    /\ \E i \in 1..Len(RecordsOf(data)) : ~IsDict(RecordsOf(data)[i])
    /\ metrics.value = EmptyMap

-----------------------------------------------------------------------------
(* Inputs of validate_academic_integrity *)

RecQuarter == Record(Str(<<"c">>), TermB, Num(1), Absent)
RecBadA == Record(Str(<<"a">>), TermB, Bad, Absent)

IntegrityRecords ==
    {RecA3, RecA4, RecDashId, RecDashTerm, RecQuarter, RecBadA}

IntegrityRecordLists == UNION {[1..n -> IntegrityRecords] : n \in 0..MaxRecords}

IntegrityTotals ==
    { Absent, Dict([overall_earned_hours |-> None]),
      Dict([overall_earned_hours |-> Num(12)]),
      Dict([overall_earned_hours |-> Num(28)]),
      Dict([overall_earned_hours |-> Bad]) }

IntegrityInputs ==
    {Transcript(Dict(EmptyMap), t, List(r), List(<< >>)) :
        t \in IntegrityTotals, r \in IntegrityRecordLists}
    \cup MalformedData

IntegrityInit ==
    /\ data \in IntegrityInputs
    /\ pc = "call_integrity"
    /\ validation = NoCall
    /\ course_terms = {}
    /\ rec_idx = 0
    /\ metrics = NoCall
    /\ page_extractions = << >>
    /\ page_idx = 1
    /\ consolidated = InitialConsolidated
    /\ seen_courses = {}
    /\ unique_records = << >>
    /\ compliance = NoCall
    /\ ProcessorIdle
    /\ ExtractorIdle

IntegrityNext == IntegrityStart \/ IntegrityScanStep \/ IntegrityCredits

SpecIntegrity == IntegrityInit /\ [][IntegrityNext]_vars

-----------------------------------------------------------------------------
(* Claims about validate_academic_integrity *)

IntegrityReturned == pc = "returned" /\ validation # NoCall

\* The positions of the warnings of one kind, and the warnings themselves.
WarningsOfKind(kind) ==
    SelectSeq(validation["warnings"], LAMBDA w : w.kind = kind)

CreditsConvertible(d) ==
    \A i \in 1..Len(RecordsOf(d)) :
        Convertible(Get(RecordsOf(d)[i], "credits_earned", None))

\* C7: on a transcript with numeric credits, credit_calculation_valid is
\* true iff |sum of credits_earned - overall_earned_hours| < 1.0, and exactly
\* one credit-mismatch warning, carrying both values, is appended iff the
\* flag is left false.
C7_CreditValidation ==
    (IntegrityReturned /\ IsTranscript(data) /\ CreditsConvertible(data)
        /\ ReportedConvertible(data)) =>
        LET calculated == ClaimedSum(RecordsOf(data), Len(RecordsOf(data)))
            reported == ClaimedReported(data)
        IN  /\ "credit_calculation_valid" \in DOMAIN validation
            /\ validation["credit_calculation_valid"] =
                  (Abs(calculated - reported) < CreditTolerance)
            /\ Len(WarningsOfKind("credit_mismatch")) =
                  IF validation["credit_calculation_valid"] THEN 0 ELSE 1
            /\ \A i \in 1..Len(WarningsOfKind("credit_mismatch")) :
                  /\ WarningsOfKind("credit_mismatch")[i].calculated = calculated
                  /\ WarningsOfKind("credit_mismatch")[i].reported = reported

\* A difference of exactly 1.0: the flag is false and one warning is there.
C7_Witness ==
    /\ IntegrityReturned /\ IsTranscript(data) /\ CreditsConvertible(data)
    /\ ReportedConvertible(data)
    /\ Len(RecordsOf(data)) >= 2
    /\ ClaimedSum(RecordsOf(data), Len(RecordsOf(data))) - ClaimedReported(data)
          = CreditTolerance
    /\ validation["credit_calculation_valid"] = FALSE
    /\ Len(WarningsOfKind("credit_mismatch")) = 1

\* The keys of the first n records whose key an earlier record has.
RECURSIVE RepeatedKeys(_, _)
RepeatedKeys(records, n) ==
    IF n = 0 THEN << >>
    ELSE IF \E j \in 1..(n - 1) : CourseKey(records[j]) = CourseKey(records[n])
         THEN Append(RepeatedKeys(records, n - 1), CourseKey(records[n]))
         ELSE RepeatedKeys(records, n - 1)

\* The warnings of a returned result; a result without the field has none.
ReturnedWarnings ==
    IF "warnings" \in DOMAIN validation THEN validation["warnings"] ELSE << >>

\* What C8 says of a returned validation.
DuplicateScanReported ==
    LET records == RecordsOf(data)
        keys == {CourseKey(records[i]) : i \in 1..Len(records)}
        warnings == ReturnedWarnings
        dups == SelectSeq(warnings, LAMBDA w : w.kind = "duplicate")
    IN  /\ ("duplicate_courses_found" \in DOMAIN validation
               /\ validation["duplicate_courses_found"] = TRUE)
              <=> (\E i, j \in 1..Len(records) :
                      i # j /\ CourseKey(records[i]) = CourseKey(records[j]))
        /\ Len(dups) = Len(records) - Cardinality(keys)
        /\ [i \in 1..Len(dups) |-> dups[i].key] =
              RepeatedKeys(records, Len(records))
        /\ \A i, j \in 1..Len(warnings) :
              (warnings[i].kind = "credit_mismatch"
                  /\ warnings[j].kind = "duplicate") => j < i

\* C8 (as claimed): for every academic record sequence the returned
\* validation reports the duplicates: the flag, one warning per repeated
\* key in record order, none removed, all before the credit-mismatch warning.
C8_DuplicateScanAsClaimed ==
    (IntegrityReturned /\ IsTranscript(data) /\ ReportedConvertible(data)) =>
        DuplicateScanReported

\* C8, on the runs that end without an internal error: the scan is reported
\* as claimed.
C8_DuplicateScanWhenCompleted ==
    (IntegrityReturned /\ IsTranscript(data)
        /\ "error" \notin DOMAIN validation) => DuplicateScanReported

\* C9 (as claimed): every returned result, the one of the internal-error
\* path included, holds course_sequence_valid = true.
C9_SequenceFlagAsClaimed ==
    IntegrityReturned =>
        /\ "course_sequence_valid" \in DOMAIN validation
        /\ validation["course_sequence_valid"] = TRUE

\* C9 (amended): while the records are scanned and in every result returned
\* without internal error course_sequence_valid is present and true; the
\* result of the internal-error path is {"error": message} alone.
C9_SequenceFlag ==
    /\ pc = "scan" => validation["course_sequence_valid"] = TRUE
    /\ IntegrityReturned =>
          IF "error" \in DOMAIN validation
          THEN DOMAIN validation = {"error"}
          ELSE /\ "course_sequence_valid" \in DOMAIN validation
               /\ validation["course_sequence_valid"] = TRUE

\* A completed run over records with a duplicate and a credit mismatch.
C9_Witness ==
    /\ IntegrityReturned /\ IsTranscript(data)
    /\ "error" \notin DOMAIN validation
    /\ Len(RecordsOf(data)) >= 3
    /\ validation["duplicate_courses_found"] = TRUE
    /\ validation["credit_calculation_valid"] = FALSE
    /\ validation["course_sequence_valid"] = TRUE

-----------------------------------------------------------------------------
(* Inputs of validate_schema_compliance *)

\* The most entries of the academic_records_info of a candidate page.
MaxEntries == 2

\* Values of the academic_records_info section of a candidate page.
EntryValues == {RecA3, Dict(EmptyMap), Str(<<"x">>), None, List(<< >>)}

AcademicValues ==
    {List(e) : e \in UNION {[1..n -> EntryValues] : n \in 0..MaxEntries}}
    \cup { None, Str(<< >>), Str(<<"a", "b">>), Num(0), Num(20), Bool(TRUE),
           Bool(FALSE), Dict(EmptyMap), Dict([k |-> Dict(EmptyMap)]) }

\* A mapping with the keys ks: academic_records_info holds a, the first
\* singleton section st, any other key null.
Candidate(ks, st, a) ==
    Dict([k \in ks |->
            IF k = "academic_records_info" THEN a
            ELSE IF k = "student_information" THEN st
            ELSE None])

SchemaInputs ==
    {Candidate(ks, st, a) :
        ks \in SUBSET (RequiredKeys \cup {"page_notes"}),
        st \in {None, Dict([student_name |-> Alice])},
        a \in AcademicValues}
    \cup { None, Num(4), Bool(TRUE), Str(<< >>), List(<< >>),
           List(<<NameStr("academic_records_info")>>),
           List([i \in 1..8 |->
                   NameStr(<<"student_information", "institution_information",
                             "gpa_summary_info", "degree_information",
                             "honors_and_awards", "transfer_credits",
                             "transcript_totals_info",
                             "academic_records_info">>[i])]),
           Str(<<"student_information", " ", "institution_information", " ",
                 "gpa_summary_info", " ", "degree_information", " ",
                 "honors_and_awards", " ", "transfer_credits", " ",
                 "transcript_totals_info", " ", "academic_records_info">>) }

SchemaInit ==
    /\ data \in SchemaInputs
    /\ pc = "call_validate"
    /\ compliance = NoCall
    /\ validation = NoCall
    /\ course_terms = {}
    /\ rec_idx = 0
    /\ metrics = NoCall
    /\ page_extractions = << >>
    /\ page_idx = 1
    /\ consolidated = InitialConsolidated
    /\ seen_courses = {}
    /\ unique_records = << >>
    /\ ProcessorIdle
    /\ ExtractorIdle

SchemaNext == ValidateExtraction

SpecSchema == SchemaInit /\ [][SchemaNext]_vars

-----------------------------------------------------------------------------
(* Claims about validate_schema_compliance *)

\* Every entry of the section is a key-value record: the section is empty
\* or null, or it is a list of mappings.
EntriesAreRecords(v) ==
    \/ v.t = "none"
    \/ v.t = "bool" /\ ~v.b
    \/ v.t = "num" /\ v.n = 0
    \/ v.t = "str" /\ v.s = << >>
    \/ v.t = "dict" /\ DOMAIN v.map = {}
    \/ v.t = "list" /\ \A i \in 1..Len(v.items) : v.items[i].t = "dict"

\* C10: validate_schema_compliance never raises, and returns true iff the
\* data is a mapping with all eight section names as keys whose
\* academic_records_info, when non-empty, holds key-value records only.
C10_SchemaCompliance ==
    /\ pc # "raised"
    /\ (pc = "returned" /\ compliance # NoCall) =>
          /\ ~compliance.raised
          /\ compliance.value =
                (/\ data.t = "dict"
                 /\ RequiredKeys \subseteq DOMAIN data.map
                 /\ EntriesAreRecords(data.map["academic_records_info"]))

\* All eight keys, and a records section that cannot be iterated: false
\* comes back and nothing is raised.
C10_Witness ==
    /\ pc = "returned" /\ compliance # NoCall
    /\ data.t = "dict"
    /\ RequiredKeys \subseteq DOMAIN data.map
    /\ data.map["academic_records_info"] = Num(20)
    /\ compliance = Ok(FALSE)

-----------------------------------------------------------------------------
(* Inputs of process_transcript *)

\* The most pages of one document.
MaxDocumentPages == 3

\* Pages with all the sections of the schema.
PageOne ==
    Transcript(Dict([student_name |-> Alice]),
               Dict([overall_earned_hours |-> Num(12)]),
               List(<<RecA3, RecDashId>>), List(<<Honor>>))
PageTwo ==
    Transcript(Dict([student_name |-> Bob]), None,
               List(<<RecA4, RecDashTerm>>), List(<< >>))
PageBadCredits ==
    Transcript(Dict(EmptyMap), None, List(<<RecBad>>), None)
\* a singleton section that is a string, a repeating section that is a number
PageTextSection ==
    Transcript(Str(<<"x">>), None, List(<<RecQuarter>>), List(<< >>))
PageNumberHonors ==
    Transcript(Dict(EmptyMap), None, List(<< >>), Num(4))
\* an academic record entry that is no mapping
PageTextEntry ==
    Transcript(Dict(EmptyMap), None, List(<<RecA3, Str(<<"x">>)>>), None)
\* a page without some of the sections
PartialPage ==
    Page(Dict([student_name |-> Alice]), Absent, List(<<RecA4>>), Absent)

\* What extract_from_image does for one page: it raises, or it returns the
\* parsed JSON value.
PageOutcomes ==
    { Raise("APIError"), Ok(None), Ok(PartialPage), Ok(PageOne), Ok(PageTwo),
      Ok(PageBadCredits), Ok(PageTextSection), Ok(PageNumberHonors),
      Ok(PageTextEntry) }

OutcomeSequences == UNION {[1..n -> PageOutcomes] : n \in 0..MaxDocumentPages}

\* process_transcript at line 244, with total_pages images
ProcessInit ==
    /\ outcomes \in OutcomeSequences
    /\ page_number = 1
    /\ step = "extract"
    /\ final_result = NoCall
    /\ page_extractions = << >>
    /\ page_idx = 1
    /\ consolidated = InitialConsolidated
    /\ rec_idx = 0
    /\ seen_courses = {}
    /\ unique_records = << >>
    /\ pc = "idle"
    /\ data = None
    /\ metrics = NoCall
    /\ validation = NoCall
    /\ course_terms = {}
    /\ compliance = NoCall
    /\ ExtractorIdle

ProcessNext ==
    \/ ExtractPage \/ CallConsolidate
    \/ MergePage \/ StartDedup \/ DedupStep \/ ConsolidateReturn
    \/ ConsolidationFailed \/ CallMetrics
    \/ CalculateVerificationMetrics \/ CallIntegrity
    \/ IntegrityStart \/ IntegrityScanStep \/ IntegrityCredits
    \/ BuildReport

SpecProcess == ProcessInit /\ [][ProcessNext]_vars

-----------------------------------------------------------------------------
(* Claims about process_transcript *)

\* The value passes schema validation: a mapping with the eight section
\* names whose academic records are key-value records.
PassesSchema(v) ==
    /\ v.t = "dict"
    /\ RequiredKeys \subseteq DOMAIN v.map
    /\ EntriesAreRecords(v.map["academic_records_info"])

\* The extraction of page i returned and its output passed validation.
PageValidated(i) == ~outcomes[i].raised /\ PassesSchema(outcomes[i].value)

\* The page holds a non-empty value that is no mapping in a singleton
\* section, or a non-empty number or boolean in a repeating section.
Unmergeable(page) ==
    \/ \E s \in SingletonSections \cap DOMAIN page.map :
          Truthy(page.map[s]) /\ page.map[s].t # "dict"
    \/ \E s \in RepeatingSections \cap DOMAIN page.map :
          Truthy(page.map[s]) /\ page.map[s].t \in {"num", "bool"}

HasReport ==
    /\ final_result # NoCall
    /\ DOMAIN final_result = {"transcript_data", "processing_metadata"}

ProcessEnded == step \in {"returned", "raised"}

\* C11 (as claimed): whatever the pages' outcomes, schema-passing output
\* with values of any type included, the document is never aborted and the
\* run ends with a report.
C11_NeverAbortsAsClaimed ==
    /\ step # "raised"
    /\ step = "returned" => HasReport

\* C11 (amended): a page whose extraction raises or whose output fails
\* validation never aborts the document: every page leaves a slot, the loop
\* goes on to the last page, the run can always take its next step until it
\* has ended, and it ends with a report of transcript_data and
\* processing_metadata unless a schema-passing page holds a non-empty value
\* that is no mapping in a singleton section or that cannot be iterated in a
\* repeating section; with such a page consolidation raises and
\* process_transcript re-raises.
C11_PartialDocumentTolerance ==
    /\ step = "extract" => Len(page_extractions) = page_number - 1
    /\ step # "extract" => Len(page_extractions) = total_pages
    /\ ~ProcessEnded => ENABLED ProcessNext
    /\ ProcessEnded =>
          (step = "raised" <=>
              \E i \in 1..total_pages :
                  PageValidated(i) /\ Unmergeable(outcomes[i].value))
    /\ step = "returned" => HasReport

\* Three pages: one extraction raises, one output fails validation, one
\* passes; the report is returned with the data of the page that passed.
C11_Witness ==
    /\ step = "returned" /\ HasReport
    /\ total_pages = 3
    /\ \E i \in 1..3 : outcomes[i].raised
    /\ \E i \in 1..3 : ~outcomes[i].raised /\ ~PassesSchema(outcomes[i].value)
    /\ \E i \in 1..3 : PageValidated(i)
    /\ final_result.transcript_data.map["academic_records_info"].items # << >>

\* The pages whose extraction returned and passed validation.
ValidatedPages == {i \in 1..total_pages : PageValidated(i)}

\* The outputs of the validated pages in page order, null in place of the
\* others.
ValidatedOutputs ==
    [i \in 1..total_pages |->
        IF PageValidated(i) THEN outcomes[i].value ELSE None]

\* C12: after the extraction loop page_extractions has total_pages slots,
\* slot i holding the output of page i if its extraction returned and passed
\* validation and the empty record otherwise; the report's pages_processed
\* is the number of those pages (so at most total_pages), and the
\* consolidated records are the first of each key among the records of
\* those pages only.
C12_PageSlots ==
    /\ step # "extract" =>
          /\ Len(page_extractions) = total_pages
          /\ \A i \in 1..total_pages :
                page_extractions[i] =
                    IF PageValidated(i) THEN outcomes[i].value
                    ELSE Dict(EmptyMap)
    /\ step = "returned" =>
          LET meta == final_result.processing_metadata
              records == final_result.transcript_data.map["academic_records_info"].items
              supplied == RecordsOfPages(ValidatedOutputs, total_pages)
          IN  /\ meta.total_pages = total_pages
              /\ meta.pages_processed = Cardinality(ValidatedPages)
              /\ meta.pages_processed <= meta.total_pages
              /\ records = FirstOfEachKey(supplied, Len(supplied))

\* Three pages of which the second left the empty record: pages_processed
\* is 2 of 3 and the records of pages 1 and 3 are in the report.
C12_Witness ==
    /\ step = "returned"
    /\ total_pages = 3
    /\ ValidatedPages = {1, 3}
    /\ page_extractions[2] = Dict(EmptyMap)
    /\ final_result.processing_metadata.pages_processed = 2
    /\ final_result.processing_metadata.total_pages = 3
    /\ outcomes[1].value = PageOne /\ outcomes[3].value = PageTwo
    /\ Len(final_result.transcript_data.map["academic_records_info"].items) = 2

-----------------------------------------------------------------------------
(* Inputs of extract_from_image *)

\* The largest configured max_retries.
MaxAttempts == 3

Responses ==
    {ApiFailure, NoContent, NotJson, Json(PageOne), FencedJson(EmptyPage),
     Fenced(None)}

\* an extractor constructed with max_retries (gpt_extractor.py 25-37),
\* at line 110 of extract_from_image
ExtractInit ==
    /\ max_retries \in 0..MaxAttempts
    /\ responses \in [1..max_retries -> Responses]
    /\ attempt = 0
    /\ api_calls = 0
    /\ extracted = NoCall
    /\ pc = "attempt"
    /\ page_extractions = << >>
    /\ page_idx = 1
    /\ consolidated = InitialConsolidated
    /\ rec_idx = 0
    /\ seen_courses = {}
    /\ unique_records = << >>
    /\ data = None
    /\ metrics = NoCall
    /\ validation = NoCall
    /\ course_terms = {}
    /\ compliance = NoCall
    /\ ProcessorIdle

ExtractNext == Attempt \/ LoopExhausted

SpecExtract == ExtractInit /\ [][ExtractNext]_vars

-----------------------------------------------------------------------------
(* Claims about extract_from_image *)

\* The attempt succeeds: the call returns and its content parses.
Succeeds(response) == response.kind \in {"json", "fenced_json", "fenced"}

ExtractEnded == pc \in {"returned", "raised"}

\* What C13 says of an invocation with the given responses.
BoundedRetry ==
    /\ api_calls <= max_retries
    /\ pc = "returned" =>
          \E k \in 1..max_retries :
              /\ Succeeds(responses[k])
              /\ \A j \in 1..(k - 1) : ~Succeeds(responses[j])
              /\ extracted = Ok(responses[k].value)
              /\ api_calls = k
    /\ ExtractEnded =>
          (pc = "raised" <=>
              \A k \in 1..max_retries : ~Succeeds(responses[k]))
    /\ pc = "raised" => extracted.raised /\ api_calls = max_retries

\* C13 (as claimed): for every configured max_retries at most max_retries
\* calls are issued, the invocation returns the parsed record of the first
\* successful attempt and issues no call after it, and it raises exactly
\* when all max_retries attempts failed.
C13_BoundedRetryAsClaimed == BoundedRetry

\* C13, for max_retries of at least 1: the retry loop is as claimed.
C13_BoundedRetryFromOne == max_retries >= 1 => BoundedRetry

-----------------------------------------------------------------------------
(* Claims about consolidate_page_data followed by validate_academic_integrity *)

\* validate_academic_integrity has returned its result for the transcript
\* consolidate_page_data returned.
IntegrityOfConsolidated ==
    /\ step \in {"integrity", "returned"}
    /\ pc = "returned"
    /\ data = Dict(consolidated)

\* What C14 says of the result.
NoDuplicateReported ==
    /\ "duplicate_courses_found" \in DOMAIN validation
    /\ validation["duplicate_courses_found"] = FALSE
    /\ \A i \in 1..Len(ReturnedWarnings) :
          ReturnedWarnings[i].kind # "duplicate"

\* C14 (as claimed): for every transcript consolidate_page_data returns,
\* validate_academic_integrity reports duplicate_courses_found = false and
\* no duplicate-course warning.
C14_NoDuplicateAsClaimed == IntegrityOfConsolidated => NoDuplicateReported

\* C14, on the runs of validate_academic_integrity that end without an
\* internal error, and during the scan: no duplicate is found.
C14_NoDuplicateWhenCompleted ==
    /\ (step = "integrity" /\ pc = "scan") =>
          validation["duplicate_courses_found"] = FALSE
    /\ (IntegrityOfConsolidated /\ "error" \notin DOMAIN validation) =>
          NoDuplicateReported

-----------------------------------------------------------------------------
(* Claims about the dedup key of consolidate_page_data *)

\* The (course_id, year_term) pair of a record: a missing field, a null and
\* an empty string are three different values.
KeyPair(record) ==
    <<Get(record, "course_id", Absent), Get(record, "year_term", Absent)>>

\* The text a key field contributes to the key string: nothing when the
\* field is missing, the word None for null, the string itself otherwise.
KeyText(record, field) ==
    IF field \notin DOMAIN record.map THEN << >>
    ELSE IF record.map[field].t = "none" THEN <<"N", "o", "n", "e">>
    ELSE record.map[field].s

\* course_id + "-" + year_term
KeyString(record) ==
    KeyText(record, "course_id") \o <<"-">> \o KeyText(record, "year_term")

\* the entries of the returned academic_records_info, as a set
Kept == {consolidated["academic_records_info"].items[i] :
            i \in 1..Len(consolidated["academic_records_info"].items)}

\* C15 (as claimed): a record whose (course_id, year_term) pair differs from
\* the pair of every earlier record is kept, also when a value holds "-" or
\* when a field is missing in one record and empty or null in the other.
C15_OnlyTrueDuplicatesAsClaimed ==
    pc = "returned" =>
        LET all == RecordsOfPages(page_extractions, Len(page_extractions))
        IN  \A i \in 1..Len(all) :
                (\A j \in 1..(i - 1) : KeyPair(all[j]) # KeyPair(all[i]))
                    => all[i] \in Kept

\* C15 (amended): a record is dropped only if an earlier record has the same
\* key string course_id + "-" + year_term (a missing field as "", null as
\* "None"): a record whose key string no earlier record has is kept, and
\* exactly one record for each key string is returned.  Records with
\* different pairs and one key string are duplicates of each other.
C15_OnlyKeyStringDuplicates ==
    pc = "returned" =>
        LET all == RecordsOfPages(page_extractions, Len(page_extractions))
            result == consolidated["academic_records_info"].items
        IN  /\ \A i \in 1..Len(all) :
                  (\A j \in 1..(i - 1) : KeyString(all[j]) # KeyString(all[i]))
                      => all[i] \in Kept
            /\ Kept \subseteq {all[i] : i \in 1..Len(all)}
            /\ Len(result) =
                  Cardinality({KeyString(all[i]) : i \in 1..Len(all)})

\* ("a-", "b") before ("a", "-b"), and a missing course_id before an empty
\* one: in each the second record has another pair, the same key string,
\* and is dropped.
C15_Witness ==
    /\ pc = "returned"
    /\ LET all == RecordsOfPages(page_extractions, Len(page_extractions))
       IN  /\ \E i, j \in 1..Len(all) :
                i < j /\ all[i] = RecDashId /\ all[j] = RecDashTerm
           /\ \E i, j \in 1..Len(all) :
                i < j /\ all[i] = RecNoId /\ all[j] = RecEmptyId
    /\ RecDashId \in Kept /\ RecDashTerm \notin Kept
    /\ RecNoId \in Kept /\ RecEmptyId \notin Kept

-----------------------------------------------------------------------------
(* Inputs of the two credit checks on one transcript *)

ChecksRecords == {RecA3, RecA4, RecQuarter, RecNoId, RecBadA}

ChecksRecordLists == UNION {[1..n -> ChecksRecords] : n \in 0..MaxRecords}

ChecksInputs ==
    {Transcript(Dict(EmptyMap), t, List(r), List(<< >>)) :
        t \in IntegrityTotals, r \in ChecksRecordLists}
    \cup MalformedData

\* process_transcript at line 269, consolidated_data being any transcript
ChecksInit ==
    /\ data \in ChecksInputs
    /\ step = "metrics"
    /\ pc = "call_metrics"
    /\ metrics = NoCall
    /\ validation = NoCall
    /\ course_terms = {}
    /\ rec_idx = 0
    /\ page_extractions = << >>
    /\ page_idx = 1
    /\ consolidated = InitialConsolidated
    /\ seen_courses = {}
    /\ unique_records = << >>
    /\ compliance = NoCall
    /\ outcomes = << >>
    /\ page_number = 1
    /\ final_result = NoCall
    /\ ExtractorIdle

ChecksNext ==
    \/ CalculateVerificationMetrics \/ CallIntegrity
    \/ IntegrityStart \/ IntegrityScanStep \/ IntegrityCredits

SpecChecks == ChecksInit /\ [][ChecksNext]_vars

-----------------------------------------------------------------------------
(* Claims about the two credit checks *)

\* Both calls have returned and neither took its internal-error path.
BothCompleted ==
    /\ step = "integrity" /\ pc = "returned"
    /\ metrics.value # EmptyMap
    /\ "error" \notin DOMAIN validation

\* C16: on every transcript on which calculate_verification_metrics and
\* validate_academic_integrity both complete without internal error,
\* gpa_consistency_check = true implies credit_calculation_valid = true.
C16_ThresholdOrdering ==
    BothCompleted =>
        (metrics.value["gpa_consistency_check"] = TRUE
            => validation["credit_calculation_valid"] = TRUE)

\* Several records summing to 0.25 more than the reported hours: both flags
\* are true.
C16_Witness ==
    /\ BothCompleted /\ IsTranscript(data)
    /\ Len(RecordsOf(data)) >= 2
    /\ ClaimedSum(RecordsOf(data), Len(RecordsOf(data)))
          - ClaimedReported(data) = 1
    /\ metrics.value["gpa_consistency_check"] = TRUE
    /\ validation["credit_calculation_valid"] = TRUE

\* The converse does not hold: a difference of exactly 0.5 passes the credit
\* check and fails the gpa check.
C16_ConverseFails ==
    /\ BothCompleted /\ IsTranscript(data)
    /\ ClaimedSum(RecordsOf(data), Len(RecordsOf(data)))
          - ClaimedReported(data) = GpaTolerance
    /\ metrics.value["gpa_consistency_check"] = FALSE
    /\ validation["credit_calculation_valid"] = TRUE

\* With no academic records the credit check passes and the gpa check is
\* not made.
C16_EmptyRecords ==
    /\ BothCompleted /\ IsTranscript(data)
    /\ RecordsOf(data) = << >>
    /\ metrics.value["gpa_consistency_check"] = FALSE
    /\ validation["credit_calculation_valid"] = TRUE

=============================================================================
